---- MODULE Spec2Model ----
(***************************************************************************)
(* Session / authentication lifecycle of the life_rank front end.          *)
(*                                                                         *)
(* State: the browser's localStorage (three session keys), the React state *)
(* of AuthProvider (user, isLoading, isInitialized), the requests in       *)
(* flight and the clock.                                                   *)
(*                                                                         *)
(* One step of the model is one run-to-completion turn of the browser's    *)
(* event loop: an async function runs from its call (or from the arrival   *)
(* of the response it awaits) through every promise continuation that      *)
(* follows, up to the next network wait, and React then renders and runs   *)
(* the effects whose dependencies changed.                                 *)
(*                                                                         *)
(* AuthProvider can be unmounted (the ErrorBoundary of App.js replaces its *)
(* subtree): effect cleanups run, requests in flight still settle, and     *)
(* React ignores the state setters of the unmounted component.             *)
(*                                                                         *)
(* The repository has two HTTP client modules named services/api.js; both  *)
(* export authAPI and userAPI, which is all AuthContext.js imports.        *)
(*   "current": unnamed/part_001 (TokenManager, expiry-aware interceptors) *)
(*   "legacy" : src/services/api.js (plain interceptors)                   *)
(* The variable client says which of the two the page was built with.      *)
(*                                                                         *)
(* Time is counted in units of 30 minutes (the session lifetime).          *)
(*                                                                         *)
(* The operations of the context (login, register, googleLogin, logout,    *)
(* updateUser, refreshUser) are called by components that App.js renders   *)
(* only once isInitialized is true; apart from that they may be called in  *)
(* any state and any order, also while earlier calls are in flight.        *)
(***************************************************************************)
EXTENDS Integers, Sequences, FiniteSets, Bags, TLC

\* ---------------------------------------------------------------- bounds
MaxTime == 2        \* the clock runs 0..MaxTime
MaxInflight == 2    \* requests that can be awaiting a response at once
MaxToken == 2       \* distinct access tokens the server hands out
MaxVal == 1         \* distinct values of a profile field
MaxRetries == 4     \* sendMessage is called with retries in 0..MaxRetries

\* ------------------------------------------------------ program constants
SessionLifetime == 1   \* 30 * 60 * 1000 ms, in units of 30 minutes
DefaultRetries == 3    \* sendMessage: async (message, retries = 3)
RetryFromStatus == 500 \* error.response?.status >= 500

\* ------------------------------------------------------------ value space
Tokens == 1..MaxToken
Vals == 1..MaxVal
Clients == {"current", "legacy"}

\* A user object has the fields email and location; 0 = field not present.
Null == [email |-> -1, location |-> -1]
FullUsers == [email : {1}, location : Vals]
PartialUsers == {[email |-> 0, location |-> v] : v \in Vals} \cup {[email |-> 1, location |-> 0]}
UserObjects == FullUsers \cup PartialUsers

\* localStorage.getItem returns null (NoItem) or the stored string.
NoItem == <<>>
toString(n) == <<n>>
parseInt(s) == s[1]
JSON_stringify(o) == <<o>>
JSON_parse(s) == s[1]

\* { ...a, ...b }
Spread(a, b) ==
  LET aa == IF a = Null THEN [email |-> 0, location |-> 0] ELSE a
      bb == IF b = Null THEN [email |-> 0, location |-> 0] ELSE b
  IN [email |-> IF bb.email # 0 THEN bb.email ELSE aa.email,
      location |-> IF bb.location # 0 THEN bb.location ELSE aa.location]

\* A stored 'user' item that is not JSON ("undefined", a truncated string):
\* JSON.parse throws a SyntaxError on it.
Garbage == [email |-> -2, location |-> -2]
Unparsable(s) == s = <<Garbage>>

EmptyStore == [token |-> NoItem, user |-> NoItem, exp |-> NoItem]

AuthOps == {"login", "register", "google"}
UserOps == {"updateProfile", "getProfile"}
Outcomes == {"ok", "401", "403", "500", "network"}

NoResp == [access_token |-> 0, user |-> Null]

\* A request in flight: the api function awaited (op), who awaits it (src:
\* "init", "visibility" or "user"), and what the awaiting function holds in
\* local variables: checkAuth its savedUser, refreshUser the user of its closure.
Call(op, src, saved, cap) ==
  [op |-> op, src |-> src, saved |-> saved, cap |-> cap]
NoCall == Call("-", "-", NoItem, Null)

\* The outcome of one api.post('/chat/send'): a 2xx response with its data,
\* an error response with its status, or an error without a response
\* (network error, timeout, a request the request interceptor rejected).
ChatStatuses == {400, 401, 403, 404, 499, 500, 502, 503}
ChatOutcome(kind, status, data) == [kind |-> kind, status |-> status, data |-> data]
NoOutcome == ChatOutcome("-", 0, 0)
ChatFailures ==
  {ChatOutcome("status", s, 0) : s \in ChatStatuses}
    \cup {ChatOutcome("network", 0, 0), ChatOutcome("timeout", 0, 0)}
Rejected == ChatOutcome("rejected", 0, 0)

\* A sendMessage call: where it stands (pc), its message, the retries it was
\* called with, the retries of the innermost recursive call (left), the
\* api.post calls made so far (attempts), the outcome of the last one once
\* it has settled, what
\* the call returned, and whether an interceptor assigned location.href.
NoChat ==
  [pc |-> "idle", message |-> 0, retries |-> 0, left |-> 0, attempts |-> 0,
   last |-> NoOutcome, result |-> 0, nav |-> FALSE]

VARIABLES
  client,         \* which services/api.js the page runs
  now,            \* Date.now()
  ls,             \* localStorage: access_token, user, token_expires_at
  user,           \* useState(null)
  isLoading,      \* useState(true)
  isInitialized,  \* useState(false)
  pc,             \* the initializeAuth effect: "boot", "verifying", "done"
  calls,          \* the requests awaiting their response (a bag)
  mounted,        \* AuthProvider is mounted (isMounted of the initializeAuth effect)
  timers,         \* registered setInterval timers and visibilitychange listeners
  ev,             \* the step taken last
  chat            \* the chatAPI.sendMessage call under way, if any

vars == <<client, now, ls, user, isLoading, isInitialized, pc, calls, mounted, timers, ev, chat>>

isAuthenticated == user # Null

\* ev: the step (act, op, src), how it went (res), the request it settled
\* (call), the Authorization value a sent request carries (bearer), the
\* payload of a settled response (resp), whether the step assigned or
\* scheduled window.location.href = '/login' (nav), and for logout whether
\* the step before was a logout too (rep); err is the message of the Error
\* the operation rejected with ("-": it did not reject), ret the user
\* object it returned (Null: none), and detail whether the error response
\* carried a data.detail.
Ev(act, op, src, res, call, bearer, resp, nav, rep) ==
  [act |-> act, op |-> op, src |-> src, res |-> res, call |-> call,
   bearer |-> bearer, resp |-> resp, nav |-> nav, rep |-> rep,
   err |-> "-", ret |-> Null, detail |-> FALSE]

Ended(e, err, ret, detail) ==
  [e EXCEPT !.err = err, !.ret = ret, !.detail = detail]

Quiet(act, res) == Ev(act, "-", "-", res, NoCall, NoItem, NoResp, FALSE, FALSE)

\* ------------------------------------------------------------ AuthContext
\* Each handler is given as the session state it leaves: the three storage
\* keys (ls) and the React user state (user).

\* A clearAuth that forgets the 'token_expires_at' key.
clearAuth_keepsExpiry(s) ==
  [ls |-> [s EXCEPT !.token = NoItem, !.user = NoItem], user |-> Null]

\* A clearAuth that removes the 'user' key only once the token is gone.
clearAuth_userKeyLate(s) ==
  [ls |-> [token |-> NoItem,
           user |-> IF s.token = NoItem THEN NoItem ELSE s.user,
           exp |-> NoItem],
   user |-> Null]

clearAuth(s) ==
  [ls |-> [s EXCEPT !.token = NoItem, !.user = NoItem, !.exp = NoItem],
   user |-> Null]

\* A setAuth that stores Date.now() as the expiry, without the 30 minutes.
setAuth_noLifetime(tokenData) ==
  [ls |-> [token |-> <<tokenData.access_token>>,
           user |-> JSON_stringify(tokenData.user),
           exp |-> toString(now)],
   user |-> tokenData.user]

setAuth(tokenData) ==
  [ls |-> [token |-> <<tokenData.access_token>>,
           user |-> JSON_stringify(tokenData.user),
           exp |-> toString(now + SessionLifetime)],
   user |-> tokenData.user]

\* An isTokenExpired that takes a missing timestamp for a valid one.
isTokenExpired_missingIsValid(s) ==
  IF s.exp = NoItem THEN FALSE ELSE now > parseInt(s.exp)

\* An isTokenExpired with the comparison turned round.
isTokenExpired_inverted(s) ==
  IF s.exp = NoItem THEN TRUE ELSE now < parseInt(s.exp)

isTokenExpired(s) ==
  IF s.exp = NoItem THEN TRUE ELSE now > parseInt(s.exp)

\* A classification that knows 401 only.
IsAuthRejection_only401(status) == status = "401"

\* A classification that takes every answered failure for a rejection.
IsAuthRejection_anyStatus(status) == status \in {"401", "403", "500"}

\* checkAuth's catch: error.response?.status === 401 || ... === 403
IsAuthRejection(status) == status \in {"401", "403"}

\* ------------------------------------------------- services/api.js (current)
TokenManager_removeToken(s) ==
  [s EXCEPT !.token = NoItem, !.user = NoItem, !.exp = NoItem]

\* A TokenManager.isTokenExpired that expires at the timestamp itself.
TokenManager_isTokenExpired_nonStrict(s) ==
  IF s.exp = NoItem THEN TRUE ELSE now >= parseInt(s.exp)

TokenManager_isTokenExpired(s) ==
  IF s.exp = NoItem THEN TRUE ELSE now > parseInt(s.exp)

\* api.interceptors.request: the storage it leaves, the Authorization value
\* it puts on the request, whether it rejects the request before it is sent,
\* and whether it assigns window.location.href.
\* A request interceptor that never sets config.headers.Authorization.
RequestCurrent_unattached(authUrl) ==
  IF ls.token # NoItem /\ TokenManager_isTokenExpired(ls)
  THEN [ls |-> TokenManager_removeToken(ls), bearer |-> NoItem,
        rejected |-> ~authUrl, nav |-> ~authUrl]
  ELSE [ls |-> ls, bearer |-> NoItem, rejected |-> FALSE, nav |-> FALSE]

RequestCurrent(authUrl) ==
  IF ls.token # NoItem /\ ~TokenManager_isTokenExpired(ls)
  THEN [ls |-> ls, bearer |-> ls.token, rejected |-> FALSE, nav |-> FALSE]
  ELSE IF ls.token # NoItem /\ TokenManager_isTokenExpired(ls)
  THEN [ls |-> TokenManager_removeToken(ls), bearer |-> NoItem,
        rejected |-> ~authUrl, nav |-> ~authUrl]
  ELSE [ls |-> ls, bearer |-> NoItem, rejected |-> FALSE, nav |-> FALSE]

\* api.interceptors.response, error branch. onLogin: the pathname includes
\* '/login' (then no redirect is scheduled).
ResponseCurrent(s, status, onLogin) ==
  IF status \in {"401", "403"}
  THEN [ls |-> TokenManager_removeToken(s), nav |-> ~onLogin]
  ELSE [ls |-> s, nav |-> FALSE]

\* authAPI.login / authAPI.googleAuth after a successful response.
StoreTokenCurrent(s, data) ==
  [s EXCEPT !.token = <<data.access_token>>,
            !.exp = toString(now + SessionLifetime)]

\* -------------------------------------------------- services/api.js (legacy)
RequestLegacy(authUrl) ==
  [ls |-> ls, bearer |-> ls.token, rejected |-> FALSE, nav |-> FALSE]

ResponseLegacy(s, status, onLogin) ==
  IF status = "401"
  THEN [ls |-> [s EXCEPT !.token = NoItem, !.user = NoItem], nav |-> TRUE]
  ELSE [ls |-> s, nav |-> FALSE]

\* ------------------------------------------------------- the client in use
Request(authUrl) ==
  IF client = "current" THEN RequestCurrent(authUrl) ELSE RequestLegacy(authUrl)

\* status: "ok", an HTTP status, or "network" (no response at all).
Response(s, status, onLogin) ==
  IF status \in {"ok", "network"} THEN [ls |-> s, nav |-> FALSE]
  ELSE IF client = "current" THEN ResponseCurrent(s, status, onLogin)
  ELSE ResponseLegacy(s, status, onLogin)

StoreToken(s, op, data) ==
  IF client = "current" /\ op \in {"login", "google"}
  THEN StoreTokenCurrent(s, data) ELSE s

\* The payloads a successful response can carry.
Payloads(op) ==
  IF op \in AuthOps THEN [access_token : Tokens, user : FullUsers]
  ELSE IF op \in UserOps THEN [access_token : {0}, user : UserObjects]
  ELSE {NoResp}

Pending == BagToSet(calls)
CanSend == BagCardinality(calls) < MaxInflight
Sent(c) == calls (+) SetToBag({c})
Settled(c) == calls (-) SetToBag({c})

\* ---------------------------------------------------------- React effects
\* useEffect(() => { if (!isAuthenticated) return; <register>;
\*                   return () => <remove> }, [isAuthenticated, ...])
\* n registrations exist and a render takes the dependency from `was` to
\* `is`: React runs the cleanup the last run returned, then the effect again.
\* An unmount is the cleanup alone (is = FALSE).

\* An interval effect that returns no cleanup.
IntervalEffect_noCleanup(n, was, is) ==
  IF was = is THEN n ELSE n + (IF is THEN 1 ELSE 0)

IntervalEffect(n, was, is) ==
  IF was = is THEN n
  ELSE (n - (IF was THEN 1 ELSE 0)) + (IF is THEN 1 ELSE 0)

VisibilityEffect(n, was, is) ==
  IF was = is THEN n
  ELSE (n - (IF was THEN 1 ELSE 0)) + (IF is THEN 1 ELSE 0)

NoTimers == [interval |-> 0, listener |-> 0]

\* The render that follows a step, with the effects it runs.
Commit ==
  timers' = [interval |-> IntervalEffect(timers.interval, isAuthenticated, user' # Null),
             listener |-> VisibilityEffect(timers.listener, isAuthenticated, user' # Null)]

\* initializeAuth's finally block, on the two flags.
initializeAuth_finally_loadingOnly(isMounted, flags) ==
  IF isMounted THEN [isLoading |-> FALSE, isInitialized |-> flags.isInitialized]
  ELSE flags

initializeAuth_finally(isMounted, flags) ==
  IF isMounted THEN [isLoading |-> FALSE, isInitialized |-> TRUE] ELSE flags

\* `await checkAuth()` while checkAuth waits for the server: the finally
\* block has not run.
initializeAuth_await_dropped(flags) == initializeAuth_finally(TRUE, flags)

initializeAuth_await(flags) == flags

Flags == [isLoading |-> isLoading, isInitialized |-> isInitialized]

\* ------------------------------------------------------------------ steps
Init ==
  /\ client \in Clients
  /\ now = 0
  /\ ls = EmptyStore
  /\ user = Null
  /\ isLoading = TRUE
  /\ isInitialized = FALSE
  /\ pc = "boot"
  /\ calls = EmptyBag
  /\ mounted = TRUE
  /\ timers = NoTimers
  /\ ev = Quiet("load", "-")
  /\ chat = NoChat

\* The clock advances.
Tick ==
  /\ now < MaxTime
  /\ now' = now + 1
  /\ ev' = Quiet("tick", "-")
  /\ UNCHANGED <<chat, client, ls, user, isLoading, isInitialized, pc, calls, mounted, timers>>

\* The page is loaded again (a navigation to /login commits, or the user
\* reloads): localStorage survives, everything else starts over.
Reload ==
  /\ user' = Null
  /\ isLoading' = TRUE
  /\ isInitialized' = FALSE
  /\ pc' = "boot"
  /\ calls' = EmptyBag
  /\ mounted' = TRUE
  /\ timers' = NoTimers
  /\ ev' = Quiet("load", "-")
  /\ UNCHANGED <<chat, client, now, ls>>

\* AuthProvider is unmounted: the effect cleanups run (isMounted = false,
\* clearInterval, removeEventListener) and the component's state is gone.
\* Requests in flight stay in flight.
Unmount ==
  /\ mounted
  /\ mounted' = FALSE
  /\ user' = Null
  /\ isLoading' = TRUE
  /\ isInitialized' = FALSE
  /\ timers' = [interval |-> IntervalEffect(timers.interval, isAuthenticated, FALSE),
                listener |-> VisibilityEffect(timers.listener, isAuthenticated, FALSE)]
  /\ ev' = Quiet("unmount", "-")
  /\ UNCHANGED <<chat, client, now, ls, pc, calls>>

\* checkAuth up to its first await (or to its return): src is "init" for the
\* initializeAuth effect and "visibility" for the visibilitychange listener.
\* initializeAuth's finally block runs when checkAuth has returned.
checkAuth(src) ==
  LET token == ls.token
      savedUser == ls.user
      fin == IF src = "init" THEN initializeAuth_finally(mounted, Flags) ELSE Flags
  IN
  IF token = NoItem \/ savedUser = NoItem THEN
    /\ ev' = Ev("checkAuth", "verify", src, "nodata", NoCall, NoItem, NoResp, FALSE, FALSE)
    /\ isLoading' = fin.isLoading
    /\ isInitialized' = fin.isInitialized
    /\ pc' = IF src = "init" THEN "done" ELSE pc
    /\ UNCHANGED <<ls, user, calls>>
  ELSE IF isTokenExpired(ls) THEN
    /\ ev' = Ev("checkAuth", "verify", src, "expired", NoCall, NoItem, NoResp, FALSE, FALSE)
    /\ ls' = clearAuth(ls).ls
    /\ user' = clearAuth(ls).user
    /\ isLoading' = fin.isLoading
    /\ isInitialized' = fin.isInitialized
    /\ pc' = IF src = "init" THEN "done" ELSE pc
    /\ UNCHANGED calls
  ELSE
    LET rq == Request(TRUE)
        c == Call("verify", src, savedUser, Null)
        waiting == IF src = "init" THEN initializeAuth_await(Flags) ELSE Flags
    IN
    /\ CanSend
    /\ ev' = Ev("checkAuth", "verify", src, "sent", NoCall, rq.bearer, NoResp, rq.nav, FALSE)
    /\ ls' = rq.ls
    /\ calls' = Sent(c)
    /\ pc' = IF src = "init" THEN "verifying" ELSE pc
    /\ isLoading' = waiting.isLoading
    /\ isInitialized' = waiting.isInitialized
    /\ UNCHANGED user

\* useEffect(() => { initializeAuth() }, [checkAuth])
initializeAuth ==
  /\ mounted
  /\ pc = "boot"
  /\ checkAuth("init")
  /\ Commit
  /\ UNCHANGED <<chat, client, now, mounted>>

\* A registered visibilitychange listener runs, the tab being visible.
handleVisibilityChange ==
  /\ timers.listener > 0
  /\ checkAuth("visibility")
  /\ Commit
  /\ UNCHANGED <<chat, client, now, mounted>>

\* login / register / googleLogin up to the await of the request.
StartAuth(op) ==
  LET rq == Request(TRUE) IN
  /\ mounted
  /\ isInitialized
  /\ CanSend
  /\ isLoading' = TRUE
  /\ ls' = rq.ls
  /\ calls' = Sent(Call(op, "user", NoItem, Null))
  /\ ev' = Ev("start", op, "user", "sent", NoCall, rq.bearer, NoResp, rq.nav, FALSE)
  /\ UNCHANGED <<chat, client, now, user, isInitialized, pc, mounted, timers>>

\* The message of the Error a catch block throws:
\* error.response?.data?.detail || '<fallback>'. refreshUser and checkAuth
\* throw nothing.
\* Catch blocks that all throw login's fallback.
Fallback_loginOnly(op) == "Login failed"

Fallback(op) ==
  CASE op = "login" -> "Login failed"
    [] op = "register" -> "Registration failed"
    [] op = "google" -> "Google login failed"
    [] op = "updateProfile" -> "Update failed"
    [] OTHER -> "-"

\* Catch blocks that ignore the server's message.
Thrown_fallbackOnly(op, detail) == Fallback(op)

Thrown(op, detail) ==
  IF op \in AuthOps \cup {"updateProfile"}
  THEN IF detail THEN "detail" ELSE Fallback(op)
  ELSE "-"

\* updateUser / refreshUser up to the await of the request; when the request
\* interceptor rejects (Error('Token expired'), no response), through the
\* catch block to the end.
StartUser(op) ==
  LET rq == Request(FALSE) IN
  /\ mounted
  /\ isInitialized
  /\ ls' = rq.ls
  /\ IF rq.rejected
     THEN /\ ev' = Ended(Ev("start", op, "user", "rejected", NoCall, NoItem, NoResp, rq.nav, FALSE),
                         Thrown(op, FALSE), IF op = "getProfile" THEN user ELSE Null,
                         FALSE)
          /\ UNCHANGED calls
     ELSE /\ CanSend
          /\ ev' = Ev("start", op, "user", "sent", NoCall, rq.bearer, NoResp, rq.nav, FALSE)
          /\ calls' = Sent(Call(op, "user", NoItem, IF op = "getProfile" THEN user ELSE Null))
  /\ UNCHANGED <<chat, client, now, user, isLoading, isInitialized, pc, mounted, timers>>

\* An updateUser that merges the response into the user it had.
updateUser_then_merged(s, u, updatedUser) ==
  [ls |-> [s EXCEPT !.user = JSON_stringify(Spread(u, updatedUser))],
   user |-> Spread(u, updatedUser)]

\* An updateUser that also renews the expiry (a sliding session).
updateUser_then_slides(s, u, updatedUser) ==
  [ls |-> [s EXCEPT !.user = JSON_stringify(updatedUser),
                    !.exp = toString(now + SessionLifetime)],
   user |-> updatedUser]

\* updateUser after the await: setItem('user', ...), setUser(updatedUser).
updateUser_then(s, u, updatedUser) ==
  [ls |-> [s EXCEPT !.user = JSON_stringify(updatedUser)], user |-> updatedUser]

\* refreshUser after the await, cap being the user of its closure.
refreshUser_then(s, cap, userData) ==
  [ls |-> [s EXCEPT !.user = JSON_stringify(Spread(cap, userData))],
   user |-> Spread(cap, userData)]

\* refreshUser's catch block: nothing but `return user`.
refreshUser_catch(s, u) == [ls |-> s, user |-> u]

\* A register that commits the session without the 30 minutes.
AuthThen_registerNoLifetime(op, tokenData) ==
  IF op = "register" THEN setAuth_noLifetime(tokenData) ELSE setAuth(tokenData)

\* login / register / googleLogin after the await: setAuth(response).
AuthThen(op, tokenData) == setAuth(tokenData)

\* A checkAuth whose JSON.parse takes anything.
checkAuth_setUser_unguarded(s, saved) == [ls |-> s, user |-> JSON_parse(saved)]

\* checkAuth after the await: setUser(JSON.parse(savedUser)), in the inner
\* try on success and in the inner catch on a failure that is not a 401/403.
\* A SyntaxError of the first lands in the inner catch (no error.response),
\* which parses again; the SyntaxError of the second lands in the outer
\* catch: clearAuth().
checkAuth_setUser(s, saved) ==
  IF Unparsable(saved) THEN clearAuth(s)
  ELSE [ls |-> s, user |-> JSON_parse(saved)]

\* What the awaiting function does with the response: the session state it
\* leaves, given the storage s the api module left and the user state u.
Settle(c, out, data, s, u) ==
  IF c.op \in AuthOps THEN
    IF out = "ok" THEN AuthThen(c.op, data) ELSE [ls |-> s, user |-> u]
  ELSE IF c.op = "verify" THEN
    IF out = "ok" THEN checkAuth_setUser(s, c.saved)
    ELSE IF IsAuthRejection(out) THEN clearAuth(s)
    ELSE checkAuth_setUser(s, c.saved)
  ELSE IF c.op = "updateProfile" THEN
    IF out = "ok" THEN updateUser_then(s, u, data.user)
    ELSE [ls |-> s, user |-> u]
  ELSE \* getProfile
    IF out = "ok" THEN refreshUser_then(s, c.cap, data.user)
    ELSE refreshUser_catch(s, u)

\* What the awaiting function returns to its caller (a user object or none).
Returned(c, out, data) ==
  IF c.op = "updateProfile" /\ out = "ok" THEN data.user
  ELSE IF c.op = "getProfile"
  THEN IF out = "ok" THEN Spread(c.cap, data.user) ELSE c.cap
  ELSE Null

\* The response to request c arrives: response interceptor, then the api
\* function, then the AuthContext function that awaited it, to its end.
\* detail: the error response carries data.detail. The state setters of an
\* unmounted component do nothing.
Respond(c, out, data, onLogin, detail) ==
  LET ri == Response(ls, out, onLogin)
      st == IF out = "ok" THEN StoreToken(ri.ls, c.op, data) ELSE ri.ls
      fin == Settle(c, out, data, st, user)
      flags == IF c.src = "init" THEN initializeAuth_finally(mounted, Flags) ELSE Flags
  IN
  /\ c \in Pending
  /\ ls' = fin.ls
  /\ user' = IF mounted THEN fin.user ELSE user
  /\ calls' = Settled(c)
  /\ isLoading' = IF mounted /\ c.op \in AuthOps THEN FALSE ELSE flags.isLoading
  /\ isInitialized' = flags.isInitialized
  /\ pc' = IF c.src = "init" THEN "done" ELSE pc
  /\ ev' = Ended(Ev("respond", c.op, c.src, out, c, NoItem, data, ri.nav, FALSE),
                 IF out = "ok" THEN "-" ELSE Thrown(c.op, detail),
                 Returned(c, out, data), detail)
  /\ Commit
  /\ UNCHANGED <<chat, client, now, mounted>>

logout ==
  /\ mounted
  /\ isInitialized
  /\ ls' = clearAuth(ls).ls
  /\ user' = clearAuth(ls).user
  /\ ev' = Ev("logout", "-", "-", "-", NoCall, NoItem, NoResp, TRUE, ev.act = "logout")
  /\ Commit
  /\ UNCHANGED <<chat, client, now, isLoading, isInitialized, pc, calls, mounted>>

\* A registered 60 s interval timer fires.
checkTokenExpiry ==
  /\ timers.interval > 0
  /\ IF isTokenExpired(ls)
     THEN /\ ls' = clearAuth(ls).ls
          /\ user' = clearAuth(ls).user
          /\ ev' = Ev("interval", "-", "-", "expired", NoCall, NoItem, NoResp, TRUE, FALSE)
     ELSE /\ ev' = Quiet("interval", "valid")
          /\ UNCHANGED <<ls, user>>
  /\ Commit
  /\ UNCHANGED <<chat, client, now, isLoading, isInitialized, pc, calls, mounted>>

\* Whether the page is on /login when the response interceptor reads
\* window.location.pathname.
Pathnames(out) ==
  IF client = "current" /\ out \in {"401", "403"} THEN BOOLEAN ELSE {FALSE}

\* Whether an error response to op may carry a data.detail that is read.
Details(op, out) ==
  IF out \in {"401", "403", "500"} /\ op \in AuthOps \cup {"updateProfile"}
  THEN BOOLEAN ELSE {FALSE}

Next ==
  \/ Tick
  \/ Reload
  \/ Unmount
  \/ initializeAuth
  \/ handleVisibilityChange
  \/ \E op \in AuthOps : StartAuth(op)
  \/ \E op \in UserOps : StartUser(op)
  \/ \E c \in Pending : \E data \in Payloads(c.op) :
       Respond(c, "ok", data, FALSE, FALSE)
  \/ \E c \in Pending, out \in Outcomes \ {"ok"} :
       \E onLogin \in Pathnames(out), detail \in Details(c.op, out) :
         Respond(c, out, NoResp, onLogin, detail)
  \/ logout
  \/ checkTokenExpiry

Spec == Init /\ [][Next]_vars

\* The response to the verify call of initializeAuth arrives.
InitVerifyReturns ==
  \E c \in Pending :
    /\ c.src = "init"
    /\ \/ \E data \in Payloads(c.op) : Respond(c, "ok", data, FALSE, FALSE)
       \/ \E out \in Outcomes \ {"ok"} :
            \E onLogin \in Pathnames(out), detail \in Details(c.op, out) :
              Respond(c, out, NoResp, onLogin, detail)

\* React runs the initializeAuth effect once the provider is mounted, and
\* the verify call returns (axios timeout: 10 s).
FairSpec == Spec /\ WF_vars(initializeAuth) /\ WF_vars(InitVerifyReturns)

\* The page is opened on a localStorage that an earlier visit left: a token,
\* a 'user' item that is JSON or not, an expiry timestamp or none.
StoredStates ==
  [token : {toString(1)},
   user : {JSON_stringify([email |-> 1, location |-> 1]), <<Garbage>>},
   exp : {NoItem, toString(SessionLifetime)}]

StoredInit ==
  /\ client \in Clients
  /\ now = 0
  /\ ls \in StoredStates
  /\ user = Null
  /\ isLoading = TRUE
  /\ isInitialized = FALSE
  /\ pc = "boot"
  /\ calls = EmptyBag
  /\ mounted = TRUE
  /\ timers = NoTimers
  /\ ev = Quiet("load", "-")
  /\ chat = NoChat

StoredSpec == StoredInit /\ [][Next]_vars

\* setInterval(checkTokenExpiry, 60000): while the interval is registered
\* the timer keeps firing.
TickingSpec == Spec /\ WF_vars(checkTokenExpiry)

\* ------------------------------------------------- chatAPI.sendMessage
\* The status as the response interceptor's 401/403 test sees it.
ChatStatusText(o) ==
  IF o.kind = "status" /\ o.status = 401 THEN "401"
  ELSE IF o.kind = "status" /\ o.status = 403 THEN "403"
  ELSE "500"

\* A catch block that retries on every failure while retries remain.
ShouldRetry_anyFailure(retries, o) == retries > 0

\* retries > 0 && error.response?.status >= 500 (undefined >= 500 is false)
ShouldRetry(retries, o) ==
  retries > 0 /\ o.kind = "status" /\ o.status >= RetryFromStatus

\* api.post('/chat/send', { message }) up to the await, for the call with
\* `left` retries: the request interceptor runs; a request it rejects
\* (Error('Token expired'), no response) goes through the catch block at once.
ChatPost(ch, left) ==
  LET rq == Request(FALSE)
      sent == [ch EXCEPT !.left = left, !.attempts = ch.attempts + 1,
                         !.last = NoOutcome, !.nav = ch.nav \/ rq.nav]
  IN
  /\ ls' = rq.ls
  /\ chat' = IF ~rq.rejected THEN [sent EXCEPT !.pc = "awaiting"]
             ELSE IF ShouldRetry(left, Rejected)
             THEN [sent EXCEPT !.pc = "waiting", !.last = Rejected]
             ELSE [sent EXCEPT !.pc = "thrown", !.last = Rejected]

\* chatAPI.sendMessage(message, retries) is called; no call is under way.
sendMessage(message, retries) ==
  /\ chat.pc \in {"idle", "returned", "thrown"}
  /\ ChatPost([NoChat EXCEPT !.message = message, !.retries = retries], retries)
  /\ UNCHANGED <<client, now, user, isLoading, isInitialized, pc, calls, mounted, timers, ev>>

\* The awaited api.post settles: response interceptor, then return
\* response.data or the catch block.
ChatRespond(o, onLogin) ==
  LET ri == IF o.kind = "status" THEN Response(ls, ChatStatusText(o), onLogin)
            ELSE [ls |-> ls, nav |-> FALSE]
      got == [chat EXCEPT !.last = o, !.nav = chat.nav \/ ri.nav]
  IN
  /\ chat.pc = "awaiting"
  /\ ls' = ri.ls
  /\ chat' = IF o.kind = "ok" THEN [got EXCEPT !.pc = "returned", !.result = o.data]
             ELSE IF ShouldRetry(chat.left, o) THEN [got EXCEPT !.pc = "waiting"]
             ELSE [got EXCEPT !.pc = "thrown"]
  /\ UNCHANGED <<client, now, user, isLoading, isInitialized, pc, calls, mounted, timers, ev>>

\* The 1000 ms timer fires: return chatAPI.sendMessage(message, retries - 1)
ChatRetry ==
  /\ chat.pc = "waiting"
  /\ ChatPost(chat, chat.left - 1)
  /\ UNCHANGED <<client, now, user, isLoading, isInitialized, pc, calls, mounted, timers, ev>>

\* The page with no AuthProvider step under way: a chat view calls
\* sendMessage on whatever localStorage holds, at any time of the clock.
ChatInit ==
  /\ client = "current"
  /\ now = 0
  /\ ls \in StoredStates \cup {EmptyStore}
  /\ user = Null
  /\ isLoading = TRUE
  /\ isInitialized = FALSE
  /\ pc = "boot"
  /\ calls = EmptyBag
  /\ mounted = TRUE
  /\ timers = NoTimers
  /\ ev = Quiet("load", "-")
  /\ chat = NoChat

ChatSettles ==
  \/ \E data \in Tokens : ChatRespond(ChatOutcome("ok", 200, data), FALSE)
  \/ \E o \in ChatFailures : \E onLogin \in Pathnames(ChatStatusText(o)) :
       ChatRespond(o, onLogin)

ChatNext ==
  \/ Tick
  \/ \E message \in Vals, retries \in 0..MaxRetries : sendMessage(message, retries)
  \/ ChatSettles
  \/ ChatRetry

\* Every api.post settles (timeout: 10000) and every setTimeout fires.
ChatSpec == ChatInit /\ [][ChatNext]_vars /\ WF_vars(ChatSettles) /\ WF_vars(ChatRetry)

\* ------------------------------------------------------------------ App.js
\* What each route guard renders.
Redirects == {"Navigate /login", "Navigate /stats"}

\* A ProtectedRoute that does not look at isLoading.
ProtectedRoute_noLoading ==
  IF ~isInitialized THEN "LoadingScreen"
  ELSE IF ~isAuthenticated THEN "Navigate /login"
  ELSE "children"

ProtectedRoute ==
  IF isLoading \/ ~isInitialized THEN "LoadingScreen"
  ELSE IF ~isAuthenticated THEN "Navigate /login"
  ELSE "children"

PublicRoute ==
  IF isLoading \/ ~isInitialized THEN "LoadingScreen"
  ELSE IF isAuthenticated THEN "Navigate /stats"
  ELSE "children"

InitialRoute ==
  IF isLoading \/ ~isInitialized THEN "LoadingScreen"
  ELSE IF isAuthenticated THEN "Navigate /stats"
  ELSE "Navigate /login"

\* ------------------------------------------------------------------ claims
AuthRejected == {"401", "403"}
Transient == {"500", "network"}
StoreCleared == ls.token = NoItem /\ ls.user = NoItem /\ ls.exp = NoItem

\* C1: in every reachable state the persisted access token is present if and
\* only if the persisted expiry timestamp is present.
C1_TokenIffExpiry == (ls.token # NoItem) <=> (ls.exp # NoItem)

\* C2: in every reachable state, a present in-memory user implies a present
\* persisted access token.
C2_UserImpliesToken == isAuthenticated => ls.token # NoItem

\* Storage holds a token and a user whose expiry lies in the past.
ExpiredPersisted ==
  /\ ls.token # NoItem /\ ls.user # NoItem
  /\ ls.exp # NoItem /\ now > parseInt(ls.exp)

\* C3: a startup check that finds a persisted token and user whose expiry
\* lies in the past (now > expiresAt) ends initialization in the same step
\* with the user absent and the three keys removed, and sends no request.
C3_ExpiredInitClears ==
  [][(pc = "boot" /\ ExpiredPersisted /\ ev'.act = "checkAuth" /\ ev'.src = "init")
      => /\ user' = Null
         /\ ls' = EmptyStore
         /\ calls' = calls /\ calls' = EmptyBag
         /\ ev'.res # "sent"
         /\ pc' = "done" /\ isInitialized' /\ ~isLoading']_vars
C3_Witness ==
  /\ ev.act = "checkAuth" /\ ev.src = "init" /\ ev.res = "expired"
  /\ pc = "done" /\ ~isAuthenticated /\ StoreCleared

\* C4: when the verify call of the startup check is answered 401 or 403,
\* initialization ends with the three keys removed and the user absent
\* (and, the provider being mounted, isInitialized set).
C4_RejectedInitClears ==
  (ev.act = "respond" /\ ev.op = "verify" /\ ev.src = "init" /\ ev.res \in AuthRejected)
    => (StoreCleared /\ ~isAuthenticated /\ pc = "done" /\ (mounted => isInitialized))
C4_Witness ==
  /\ mounted /\ isInitialized
  /\ ev.act = "respond" /\ ev.op = "verify" /\ ev.src = "init" /\ ev.res = "403"
  /\ ev.call.saved # NoItem
  /\ StoreCleared /\ ~isAuthenticated

\* C5: when the verify call of the startup check fails without a 401/403
\* answer (server error, no response), initialization ends authenticated
\* with the user that was stored, and the step leaves the three keys as
\* they were (the provider being mounted).
C5_TransientInitKeeps ==
  [][(mounted /\ ev'.act = "respond" /\ ev'.op = "verify" /\ ev'.src = "init"
      /\ ev'.res \in Transient)
      => /\ ls.user # NoItem
         /\ user' = JSON_parse(ls.user)
         /\ user' = JSON_parse(ev'.call.saved)
         /\ isAuthenticated'
         /\ ls' = ls
         /\ ls'.token # NoItem /\ ls'.exp # NoItem
         /\ pc' = "done" /\ isInitialized']_vars
C5_Witness ==
  /\ mounted
  /\ ev.act = "respond" /\ ev.op = "verify" /\ ev.src = "init" /\ ev.res \in Transient
  /\ isAuthenticated /\ ls.user = JSON_stringify(user) /\ ls.token # NoItem

\* C6: the step that settles a successful login leaves the response's
\* token, the serialized response user and expiry = now + 30 minutes in
\* storage and the response user in memory (isAuthenticated); the three keys
\* are written within that one step. (An unmounted provider has no user.)
C6_LoginCommits ==
  (ev.act = "respond" /\ ev.op = "login" /\ ev.res = "ok")
    => /\ ls.token = <<ev.resp.access_token>>
       /\ ls.user = JSON_stringify(ev.resp.user)
       /\ ls.exp = toString(now + SessionLifetime)
       /\ mounted => (user = ev.resp.user /\ isAuthenticated)
C6_Witness ==
  /\ mounted
  /\ ev.act = "respond" /\ ev.op = "login" /\ ev.res = "ok"
  /\ ev.resp.access_token \in Tokens
  /\ ls.token = <<ev.resp.access_token>> /\ isAuthenticated

\* C7: the step that settles a failed login, register or googleLogin leaves
\* the three persisted keys and the in-memory user as they were.
C7_FailedAuthKeepsSession ==
  [][(ev'.act = "respond" /\ ev'.op \in AuthOps /\ ev'.res # "ok")
      => (ls' = ls /\ user' = user)]_vars

\* C8: a logout step leaves none of the three keys in storage and the user
\* absent, signals the navigation to /login, and sends no request.
C8_LogoutClears ==
  [][(ev'.act = "logout")
      => (ls' = EmptyStore /\ user' = Null /\ ev'.nav /\ calls' = calls)]_vars
C8_Witness ==
  /\ ev.act = "logout" /\ ~ev.rep /\ StoreCleared /\ ~isAuthenticated /\ ev.nav
  /\ calls # EmptyBag

\* C9: a logout that directly follows a logout changes neither storage nor
\* the in-memory session state.
C9_LogoutIdempotent ==
  [][(ev.act = "logout" /\ ev'.act = "logout")
      => (ls' = ls /\ user' = user /\ isLoading' = isLoading
          /\ isInitialized' = isInitialized /\ calls' = calls /\ ev'.nav = ev.nav)]_vars
C9_Witness == ev.act = "logout" /\ ev.rep /\ StoreCleared /\ ~isAuthenticated

\* C10: after any response with status 401 or 403 is settled, the three keys
\* are removed and the in-memory user is absent.
C10_RejectionClearsSession ==
  (ev.act = "respond" /\ ev.res \in AuthRejected) => (StoreCleared /\ ~isAuthenticated)

\* A refreshUser step that ends in its catch block: the response is a
\* failure, or the request interceptor rejected the request.
RefreshFailed(e) ==
  /\ e.op = "getProfile"
  /\ \/ e.act = "respond" /\ e.res # "ok"
     \/ e.act = "start" /\ e.res = "rejected"

\* C11: a refreshUser whose profile fetch fails, whatever the failure (401
\* and 403 answers and a locally expired token included), throws nothing,
\* leaves the in-memory user and the three persisted keys as they were, and
\* neither assigns nor schedules a navigation to /login.
C11_RefreshFailureHarmless ==
  [][RefreshFailed(ev')
      => (ev'.err = "-" /\ user' = user /\ ls' = ls /\ ~ev'.nav)]_vars

\* C12: the step that settles a successful updateUser leaves exactly the
\* server's response record as the in-memory user and, serialized, as the
\* persisted user (no field of the prior user survives unless the server
\* returned it), returns that record, and leaves the persisted token and
\* expiry as they were.
C12_UpdateReplaces ==
  [][(mounted /\ ev'.act = "respond" /\ ev'.op = "updateProfile" /\ ev'.res = "ok")
      => /\ user' = ev'.resp.user
         /\ ls'.user = JSON_stringify(ev'.resp.user)
         /\ ev'.ret = ev'.resp.user
         /\ ls'.token = ls.token /\ ls'.exp = ls.exp]_vars
\* The response lacks the location the prior user had.
C12_Witness ==
  /\ mounted /\ ev.act = "respond" /\ ev.op = "updateProfile" /\ ev.res = "ok"
  /\ ev.resp.user = [email |-> 1, location |-> 0]
  /\ user = ev.resp.user /\ ls.user = JSON_stringify(user) /\ ev.ret = user
  /\ ls.token # NoItem /\ ls.exp # NoItem

\* An updateUser step that ends in its catch block.
UpdateFailed(e) ==
  /\ e.op = "updateProfile"
  /\ \/ e.act = "respond" /\ e.res # "ok"
     \/ e.act = "start" /\ e.res = "rejected"

\* C13: a failed updateUser leaves the in-memory user as it was and rejects
\* with an Error whose message is the server's (data.detail) when the
\* response carries one, and 'Update failed' when there is none.
C13_UpdateFailureKeepsUser ==
  [][UpdateFailed(ev')
      => /\ user' = user
         /\ ev'.err # "-"
         /\ ev'.err = IF ev'.detail THEN "detail" ELSE "Update failed"]_vars
C13_Witness ==
  /\ UpdateFailed(ev) /\ ev.act = "respond" /\ ev.res = "500" /\ ev.detail
  /\ ev.err = "detail" /\ isAuthenticated

\* C14: an interval tick that finds the persisted expiry in the past
\* (now > expiresAt) logs out in that very tick: the three keys are removed,
\* the user is absent and the navigation to /login is assigned. Ticks exist
\* while the session is authenticated, so an expired authenticated session
\* does not outlive the first tick after its expiry.
C14_ExpiredTickLogsOut ==
  [][(ev'.act = "interval" /\ ls.exp # NoItem /\ now > parseInt(ls.exp))
      => /\ isAuthenticated
         /\ ev'.res = "expired"
         /\ ls' = EmptyStore
         /\ user' = Null
         /\ ev'.nav]_vars
C14_Witness ==
  /\ ev.act = "interval" /\ ev.res = "expired" /\ ev.nav
  /\ StoreCleared /\ ~isAuthenticated /\ timers.interval = 0

\* A visibilitychange step, and the settling of the verify call it sent.
VisibilityStep(e) == e.act = "checkAuth" /\ e.src = "visibility"
VisibilityRejected(e) ==
  e.act = "respond" /\ e.op = "verify" /\ e.src = "visibility" /\ e.res \in AuthRejected

\* C15: every hidden-to-visible transition of an authenticated session
\* issues a verify call, and a verify call so issued that the server rejects
\* leaves the session cleared and isAuthenticated false.
C15_VisibilityVerifies ==
  [][/\ VisibilityStep(ev') => (ev'.res = "sent" /\ calls' # calls)
     /\ VisibilityRejected(ev') => (ls' = EmptyStore /\ user' = Null)]_vars

\* C16: in every reachable state the expiry interval timer and the
\* visibilitychange listener are registered only if the provider is mounted
\* and isAuthenticated, and there is at most one of each (so both are gone
\* once authentication has ended or the provider is unmounted).
C16_TimersOnlyWhileAuthenticated ==
  /\ timers.interval \in {0, 1} /\ timers.listener \in {0, 1}
  /\ timers.interval > 0 => (mounted /\ isAuthenticated)
  /\ timers.listener > 0 => (mounted /\ isAuthenticated)
C16_Witness ==
  /\ ev.act = "interval" /\ ev.res = "valid"
  /\ mounted /\ isAuthenticated /\ timers.interval = 1 /\ timers.listener = 1

\* Startup is under way, and startup has ended.
InitRunning == mounted /\ pc \in {"boot", "verifying"}
InitEnded == pc = "done" /\ isInitialized /\ ~isLoading

C18_DecisionBeforeInitialized ==
  [][(ev'.src = "init" /\ ~isAuthenticated /\ isAuthenticated')
      => /\ ~(isInitialized /\ ~isLoading)
         /\ isInitialized' /\ ~isLoading']_vars
C18_Witness ==
  /\ ev.act = "respond" /\ ev.src = "init" /\ ev.res = "500"
  /\ isAuthenticated /\ isInitialized /\ ~isLoading

\* C19: ProtectedRoute renders its children only when isInitialized,
\* not isLoading and isAuthenticated, and while isLoading or not
\* isInitialized none of ProtectedRoute, PublicRoute and InitialRoute
\* renders a redirect.
C19_GuardsWaitForInit ==
  /\ ProtectedRoute = "children" => (isInitialized /\ ~isLoading /\ isAuthenticated)
  /\ (isLoading \/ ~isInitialized)
       => /\ ProtectedRoute \notin Redirects
          /\ PublicRoute \notin Redirects
          /\ InitialRoute \notin Redirects
C19_Witness ==
  /\ mounted /\ ProtectedRoute = "children"
  /\ PublicRoute = "Navigate /stats" /\ InitialRoute = "Navigate /stats"

\* The persisted expiry lies in the past.
LocallyExpired == ls.exp # NoItem /\ now > parseInt(ls.exp)

\* C20: no request is sent with a locally expired token as its bearer, and
\* an updateUser or refreshUser started while the stored token is locally
\* expired fails at once, with the stored credentials cleared and without
\* a request being sent.
C20_NoExpiredBearer ==
  [][/\ (ev'.res = "sent" /\ ev'.bearer # NoItem) => ~LocallyExpired
     /\ (ev'.act = "start" /\ ev'.op \in UserOps /\ ls.token # NoItem /\ LocallyExpired)
          => (ev'.res = "rejected" /\ ls' = EmptyStore /\ calls' = calls)]_vars

\* C21: a request sent while a token whose expiry has not passed is stored
\* carries exactly the token that is in storage when it is sent.
C21_BearerIsStoredToken ==
  (ev.res = "sent" /\ ls.token # NoItem /\ ls.exp # NoItem /\ now <= parseInt(ls.exp))
    => ev.bearer = ls.token
\* A profile request that carries the stored token.
C21_Witness ==
  /\ ev.res = "sent" /\ ev.op \in UserOps
  /\ ls.token = <<2>> /\ ev.bearer = <<2>> /\ now <= parseInt(ls.exp)

\* The response to a login, register or googleLogin call is settled.
AuthSettled(e) == e.act = "respond" /\ e.op \in AuthOps

\* C22: of overlapping login, register and googleLogin calls the last
\* successful one wins: the step that settles a successful call leaves the
\* token, the serialized user, the expiry and the in-memory user of that
\* one response, and the step that settles a failing call leaves storage
\* and the in-memory user as the calls settled before it left them.
C22_LastSuccessWins ==
  [][(mounted /\ AuthSettled(ev'))
      => IF ev'.res = "ok"
         THEN /\ ls'.token = <<ev'.resp.access_token>>
              /\ ls'.user = JSON_stringify(ev'.resp.user)
              /\ ls'.exp = toString(now + SessionLifetime)
              /\ user' = ev'.resp.user
         ELSE ls' = ls /\ user' = user]_vars

\* The response to the verify call of a visibility re-check is settled,
\* and the server did not reject the token.
RecheckSettled(e) ==
  /\ e.act = "respond" /\ e.op = "verify" /\ e.src = "visibility"
  /\ e.res \notin AuthRejected

\* C23: a visibility re-check that finishes after a concurrent login or
\* updateUser has committed does not put back what it read before that
\* commit: when the in-memory user is the persisted one, the re-check's
\* last step leaves it so.
C23_RecheckKeepsLatest ==
  [][(mounted /\ RecheckSettled(ev') /\ ls.user # NoItem /\ user = JSON_parse(ls.user))
      => user' = user]_vars

\* A login, register or googleLogin call is in flight.
AuthInFlight == \E c \in Pending : c.op \in AuthOps

\* C24: isLoading is true exactly while the startup check or a login,
\* register or googleLogin call is in flight, overlapping calls included.
C24_LoadingIffInFlight ==
  mounted => (isLoading <=> (pc # "done" \/ AuthInFlight))

\* C25: once initialization has completed, loading and authenticated never
\* hold together (of loading, authenticated and unauthenticated exactly one
\* holds).
C25_LoadingExcludesAuthenticated ==
  (mounted /\ isInitialized) => ~(isLoading /\ isAuthenticated)

\* The session state login leaves when its response is (out, data).
LoginOutcome(out, data) ==
  LET ri == Response(ls, out, FALSE)
      st == IF out = "ok" THEN StoreToken(ri.ls, "login", data) ELSE ri.ls
  IN Settle(Call("login", "user", NoItem, Null), out, data, st, user)

\* C26: the step that settles a register or googleLogin call leaves storage
\* and the in-memory user exactly as login would have left them on the same
\* response, clears isLoading, and rejects exactly when the response is a
\* failure.
C26_SameContractAsLogin ==
  [][(mounted /\ AuthSettled(ev') /\ ev'.op # "login")
      => /\ ls' = LoginOutcome(ev'.res, ev'.resp).ls
         /\ user' = LoginOutcome(ev'.res, ev'.resp).user
         /\ ~isLoading'
         /\ (ev'.err # "-") <=> (ev'.res # "ok")]_vars
C26_Witness ==
  /\ mounted /\ AuthSettled(ev) /\ ev.op = "register" /\ ev.res = "ok"
  /\ ls.token = <<ev.resp.access_token>> /\ ls.user = JSON_stringify(ev.resp.user)
  /\ ls.exp = toString(now + SessionLifetime) /\ user = ev.resp.user

\* A login, register, googleLogin or updateUser step that ends in its
\* catch block.
OperationFailed(e) ==
  /\ e.op \in AuthOps \cup {"updateProfile"}
  /\ \/ e.act = "respond" /\ e.res # "ok"
     \/ e.act = "start" /\ e.res = "rejected"

\* C27: a failing login, register, googleLogin or updateUser rejects with
\* the server's detail as its message when the failure carries one, and
\* otherwise with 'Login failed', 'Registration failed', 'Google login
\* failed' or 'Update failed'; the latter also when the HTTP client failed
\* without a response.
C27_ErrorMessage ==
  [][OperationFailed(ev')
      => ev'.err = IF ev'.detail THEN "detail"
                   ELSE CASE ev'.op = "login" -> "Login failed"
                          [] ev'.op = "register" -> "Registration failed"
                          [] ev'.op = "google" -> "Google login failed"
                          [] ev'.op = "updateProfile" -> "Update failed"]_vars
C27_Witness ==
  /\ OperationFailed(ev) /\ ev.op = "register" /\ ev.res = "network"
  /\ ev.err = "Registration failed"

\* C28: a successful refreshUser leaves as the in-memory user the shallow
\* merge of the user at the time the fetch resolves with the fetched
\* profile.
C28_RefreshMergesCurrent ==
  [][(mounted /\ ev'.act = "respond" /\ ev'.op = "getProfile" /\ ev'.res = "ok")
      => user' = Spread(user, ev'.resp.user)]_vars

\* C29: a startup check that finds the persisted token or the persisted
\* user absent ends initialization in that step: the user stays absent,
\* isInitialized is set and no request is sent.
C29_NoDataInitStops ==
  [][(pc = "boot" /\ (ls.token = NoItem \/ ls.user = NoItem)
      /\ ev'.act = "checkAuth" /\ ev'.src = "init")
      => /\ user' = Null
         /\ isInitialized' /\ ~isLoading' /\ pc' = "done"
         /\ calls' = calls /\ calls' = EmptyBag
         /\ ev'.res = "nodata"]_vars
\* The user key is there, the token is not.
C29_Witness ==
  /\ ev.act = "checkAuth" /\ ev.src = "init" /\ ev.res = "nodata"
  /\ ls.token = NoItem /\ ls.user # NoItem
  /\ ~isAuthenticated /\ isInitialized /\ calls = EmptyBag

\* A step removes the key k from storage.
Removes(k) == ls[k] # NoItem /\ ls'[k] = NoItem

\* C30: a step that removes one of the three persisted keys removes all
\* three.
C30_KeysClearedTogether ==
  [][(Removes("token") \/ Removes("user") \/ Removes("exp")) => ls' = EmptyStore]_vars

\* C31: the persisted expiry is written only by the step that settles a
\* successful login, register or googleLogin, and then as now + 30 minutes;
\* no other step (updateUser, refreshUser, a successful verification, an
\* interval tick) puts a value there or changes the one that is there.
C31_ExpiryOnlyAtIssuance ==
  [][(ls'.exp # ls.exp /\ ls'.exp # NoItem)
      => /\ AuthSettled(ev') /\ ev'.res = "ok"
         /\ ls'.exp = toString(now + SessionLifetime)]_vars
\* A later login replaces the earlier window.
C31_Witness ==
  /\ AuthSettled(ev) /\ ev.res = "ok" /\ now = 1
  /\ ls.exp = toString(now + SessionLifetime) /\ isAuthenticated

\* The step taken last cleared the session.
JustCleared ==
  /\ ~isAuthenticated
  /\ \/ ev.act = "logout"
     \/ ev.act = "interval" /\ ev.res = "expired"
     \/ ev.act = "checkAuth" /\ ev.res = "expired"
     \/ ev.act = "respond" /\ ev.op = "verify" /\ ev.res \in AuthRejected

\* C32: once the session has been cleared, the user becomes present again
\* only by the step that settles a successful login, register or
\* googleLogin; a refreshUser, updateUser or verify call in flight at the
\* clearing does not bring the user back when it resolves.
C32_ClearedStaysCleared ==
  [][(mounted /\ JustCleared /\ isAuthenticated')
      => (AuthSettled(ev') /\ ev'.res = "ok")]_vars

\* C33: in every reachable state a persisted user implies a persisted
\* token.
C33_UserKeyImpliesToken == ls.user # NoItem => ls.token # NoItem

\* C34: whenever no request is in flight and the user is authenticated,
\* the in-memory user is the deserialized persisted user.
C34_MemoryEqualsPersisted ==
  (mounted /\ pc = "done" /\ calls = EmptyBag /\ isAuthenticated /\ ls.user # NoItem)
    => user = JSON_parse(ls.user)

\* C36: a visibility re-check that finds the persisted token or the
\* persisted user absent leaves the in-memory user absent.
C36_RecheckNoDataClears ==
  [][(VisibilityStep(ev') /\ (ls.token = NoItem \/ ls.user = NoItem))
      => user' = Null]_vars
\* C35: when the HTTP client has removed the stored credentials while the
\* in-memory user is present, the in-memory user eventually becomes absent
\* (or a new login installs a new expiry): an interval tick that finds no
\* expiry timestamp clears the session, and with the interval firing such a
\* tick comes.
C35_ClearedStoreLogsOut ==
  /\ [][(ev'.act = "interval" /\ ls.exp = NoItem)
        => (ev'.res = "expired" /\ ev'.nav /\ user' = Null /\ ls' = EmptyStore)]_vars
  /\ ((mounted /\ isAuthenticated /\ ls.exp = NoItem)
        ~> (~isAuthenticated \/ ls.exp # NoItem))
C35_Witness ==
  /\ client = "current" /\ mounted /\ isAuthenticated /\ StoreCleared
  /\ \/ ev.act = "respond" /\ ev.op \in UserOps /\ ev.res \in AuthRejected
     \/ ev.act = "start" /\ ev.op \in UserOps /\ ev.res = "rejected"

\* C37: when the persisted 'user' item cannot be parsed, the step that
\* settles the verify call of the startup check, however the call went,
\* throws nothing and leaves the three keys removed and, the provider being
\* mounted, the in-memory user absent, isLoading false and isInitialized true.
C37_UnparsableUserClears ==
  [][(ev'.act = "respond" /\ ev'.src = "init" /\ Unparsable(ev'.call.saved))
      => /\ ls' = EmptyStore
         /\ ev'.err = "-"
         /\ pc' = "done"
         /\ mounted => (user' = Null /\ ~isLoading' /\ isInitialized')]_vars
C37_Witness ==
  /\ ev.act = "respond" /\ ev.src = "init" /\ Unparsable(ev.call.saved)
  /\ ev.res = "ok" /\ mounted
  /\ ls = EmptyStore /\ user = Null /\ ~isLoading /\ isInitialized

ChatFailed(c) == c.last.kind \notin {"-", "ok"}

\* C39: a sendMessage call makes at most retries + 1 api.post calls and
\* ends; it goes on to another attempt only after a failure with a status
\* of 500 or more while retries remain, it returns the data of the first
\* successful response, and it throws at once on every other failure.
C39_SendMessageTerminates ==
  /\ [](/\ chat.attempts <= chat.retries + 1
        /\ chat.attempts + chat.left <= chat.retries + 1
        /\ (chat.retries = DefaultRetries => chat.attempts <= 4))
  /\ [][/\ ((chat.pc = "awaiting" /\ chat'.last.kind = "ok")
              => (chat'.pc = "returned" /\ chat'.result = chat'.last.data
                  /\ chat'.attempts = chat.attempts))
         /\ ((chat.pc \in {"awaiting", "waiting"} /\ chat'.pc = "waiting")
              => (chat.left > 0 /\ chat'.last.kind = "status"
                  /\ chat'.last.status >= 500))
         /\ ((chat.pc = "awaiting" /\ ChatFailed(chat')
                /\ (chat'.last.kind # "status" \/ chat'.last.status < 500
                     \/ chat.left = 0))
              => (chat'.pc = "thrown" /\ chat'.attempts = chat.attempts))
         /\ ((chat.pc = "awaiting" /\ chat'.last.kind = "status"
                /\ chat'.last.status >= 500 /\ chat.left > 0)
              => chat'.pc = "waiting")
         /\ ((chat.pc \in {"awaiting", "waiting"} /\ chat'.attempts # chat.attempts)
              => (chat.pc = "waiting" /\ chat'.attempts = chat.attempts + 1
                  /\ chat'.left = chat.left - 1))]_vars
  /\ ((chat.pc \in {"awaiting", "waiting"}) ~> (chat.pc \in {"returned", "thrown"}))
C39_Witness ==
  /\ chat.pc = "returned" /\ chat.retries = DefaultRetries
  /\ chat.attempts = DefaultRetries + 1 /\ chat.left = 0
  /\ chat.last.kind = "ok" /\ chat.result = chat.last.data

====
